---------------------------- MODULE Spec2Model ----------------------------
(***************************************************************************)
(* Model of the Storybook Markdown scraper.                                *)
(*                                                                         *)
(* The repository holds two copies of the script: src/scrape-storybook.js  *)
(* and the script that follows the README in src/unnamed/part_000.  Their  *)
(* driver (main) and their buildMarkdownForStory are line for line the     *)
(* same; they differ in how the page's code blocks are extracted (the      *)
(* second copy normalizes with normalizeCode and drops repeated texts).    *)
(* The variable script says which copy runs.                               *)
(*                                                                         *)
(* Text is modelled as sequences of one-character strings where the code   *)
(* looks inside it (titles, argv, code text); table cells and language     *)
(* tags, which the code only copies, are TLA+ strings.  The Markdown text   *)
(* is a sequence of lines, each line a record that keeps the heading       *)
(* level, the text and the cells apart instead of joining them into one    *)
(* string; blank lines are left out.                                       *)
(***************************************************************************)
EXTENDS Integers, Sequences, FiniteSets, TLC

VARIABLES
    script,          \* which copy of the script runs
    argv,            \* process.argv[2]
    baseUrl,         \* const baseUrl
    storiesRes,      \* the response of fetch(storiesUrl)
    stories,         \* const stories = Object.values(storiesJson.stories)
    browser,         \* "none" | "open" | "closed"
    markdown,        \* let markdown
    lastTitleParts,  \* let lastTitleParts
    index,           \* the loop variable (0-based, as in the code)
    content,         \* const content of the current iteration
    outFile,         \* the contents of the output file, NotWritten before
    writes,          \* how many times fs.writeFile completed
    exitStatus,      \* the status of process.exit, -1 while running
    stderr,          \* the messages printed by console.error
    emitted,         \* per buildMarkdownForStory call of main: story, text
    pc,              \* position of main
    fnPc,            \* position of the stand-alone function run
    fnStory,         \* argument story
    fnPage,          \* the page the content is extracted from
    fnContent,       \* argument content
    fnLast,          \* argument lastTitleParts
    fnOut            \* the returned text

driverVars == <<script, argv, baseUrl, storiesRes, stories, browser, markdown,
                lastTitleParts, index, content, outFile, writes, exitStatus,
                stderr, emitted, pc>>
fnVars == <<fnPc, fnStory, fnPage, fnContent, fnLast, fnOut>>
vars == <<script, argv, baseUrl, storiesRes, stories, browser, markdown,
          lastTitleParts, index, content, outFile, writes, exitStatus,
          stderr, emitted, pc, fnPc, fnStory, fnPage, fnContent, fnLast, fnOut>>

-----------------------------------------------------------------------------
(* Bounds *)

MaxStories == 2
MaxTitleLen == 5
MaxCandidates == 3
MaxCodeLen == 2
MaxHeaders == 2
MaxCols == 2
MaxRows == 2
MaxTables == 1

-----------------------------------------------------------------------------
(* JavaScript values *)

Undefined == [def |-> FALSE, s |-> <<>>]
Str(s) == [def |-> TRUE, s |-> s]
\* Boolean(v) of a string or undefined
Truthy(v) == v.def /\ v.s # <<>>
\* a || b
Or(a, b) == IF Truthy(a) THEN a ELSE b

SeqsUpTo(S, n) == UNION {[1..k -> S] : k \in 0..n}

RECURSIVE IndexOf(_, _, _)
\* the first position >= from of character c in s, 0 when there is none
IndexOf(s, c, from) ==
    IF from > Len(s) THEN 0
    ELSE IF s[from] = c THEN from
    ELSE IndexOf(s, c, from + 1)

RECURSIVE Split(_)
\* String.prototype.split('/')
Split(s) ==
    LET i == IndexOf(s, "/", 1) IN
    IF i = 0 THEN <<s>>
    ELSE <<SubSeq(s, 1, i - 1)>> \o Split(SubSeq(s, i + 1, Len(s)))

RECURSIVE FilterBoolean(_)
\* Array.prototype.filter(Boolean) on an array of strings
FilterBoolean(parts) ==
    IF parts = <<>> THEN <<>>
    ELSE IF Head(parts) = <<>> THEN FilterBoolean(Tail(parts))
    ELSE <<Head(parts)>> \o FilterBoolean(Tail(parts))

\* s.replace(/\/$/, '')
StripTrailingSlash(s) ==
    IF s # <<>> /\ s[Len(s)] = "/" THEN SubSeq(s, 1, Len(s) - 1) ELSE s


-----------------------------------------------------------------------------
(* Extraction of the page content (the callback of page.evaluate) *)

Nbsp == "nbsp"
Blank == {" ", "\t"}
WhiteSpace == {" ", "\t", "\n", "\r", Nbsp}

\* s.replace(/\u00A0/g, ' ')
ReplaceNbsp(s) == [i \in 1..Len(s) |-> IF s[i] = Nbsp THEN " " ELSE s[i]]

RECURSIVE TrimStart(_)
TrimStart(s) ==
    IF s # <<>> /\ Head(s) \in WhiteSpace THEN TrimStart(Tail(s)) ELSE s

RECURSIVE TrimEnd(_)
TrimEnd(s) ==
    IF s # <<>> /\ s[Len(s)] \in WhiteSpace
    THEN TrimEnd(SubSeq(s, 1, Len(s) - 1)) ELSE s

\* String.prototype.trim()
Trim(s) == TrimEnd(TrimStart(s))

\* normalize of scrape-storybook.js
normalize(s) == Trim(ReplaceNbsp(s))

RECURSIVE ReplaceCrLf(_)
\* t.replace(/\r\n/g, '\n')
ReplaceCrLf(s) ==
    IF s = <<>> THEN <<>>
    ELSE IF Len(s) >= 2 /\ s[1] = "\r" /\ s[2] = "\n"
         THEN <<"\n">> \o ReplaceCrLf(SubSeq(s, 3, Len(s)))
    ELSE <<Head(s)>> \o ReplaceCrLf(Tail(s))

RECURSIVE BlankRun(_, _)
\* the position after the run of spaces and tabs that starts at i
BlankRun(s, i) ==
    IF i <= Len(s) /\ s[i] \in Blank THEN BlankRun(s, i + 1) ELSE i

RECURSIVE StripBlanksBeforeNewline(_)
\* t.replace(/[ \t]+\n/g, '\n')
StripBlanksBeforeNewline(s) ==
    IF s = <<>> THEN <<>>
    ELSE LET j == BlankRun(s, 1) IN
         IF j > 1 /\ j <= Len(s) /\ s[j] = "\n"
         THEN <<"\n">> \o StripBlanksBeforeNewline(SubSeq(s, j + 1, Len(s)))
         ELSE IF j > 1
         THEN SubSeq(s, 1, j - 1) \o StripBlanksBeforeNewline(SubSeq(s, j, Len(s)))
         ELSE <<Head(s)>> \o StripBlanksBeforeNewline(Tail(s))

RECURSIVE StripBlanksAtEnd(_)
\* t.replace(/[ \t]+$/g, '')
StripBlanksAtEnd(s) ==
    IF s # <<>> /\ s[Len(s)] \in Blank
    THEN StripBlanksAtEnd(SubSeq(s, 1, Len(s) - 1)) ELSE s

\* normalizeCode of the copy in unnamed/part_000
normalizeCode(s) ==
    IF s = <<>> THEN <<>>
    ELSE StripBlanksAtEnd(StripBlanksBeforeNewline(ReplaceCrLf(ReplaceNbsp(s))))

\* What addCodeBlockFromElement does to the pair (codeBlocks, seenCode)
\* for one element el = [text, lang] (lang is the resolved language tag).
addCodeBlockFromElement(acc, el) ==
    LET text == normalizeCode(el.text) IN
    IF text = <<>> THEN acc
    ELSE IF text \in acc.seenCode THEN acc
    ELSE [seenCode |-> acc.seenCode \cup {text},
          codeBlocks |-> Append(acc.codeBlocks, [language |-> el.lang, code |-> text])]

RECURSIVE ForEachCandidate(_, _)
\* candidates.forEach(addCodeBlockFromElement)
ForEachCandidate(acc, candidates) ==
    IF candidates = <<>> THEN acc
    ELSE ForEachCandidate(addCodeBlockFromElement(acc, Head(candidates)),
                          Tail(candidates))

\* The code blocks of a page: the elements the selectors found, in the order
\* the script visits them.
ExtractCodeBlocks(sc, candidates) ==
    IF sc = "scrape-storybook.js"
    THEN [i \in 1..Len(candidates) |->
            [language |-> candidates[i].lang, code |-> normalize(candidates[i].text)]]
    ELSE ForEachCandidate([seenCode |-> {}, codeBlocks |-> <<>>], candidates).codeBlocks

\* The value page.evaluate returns.  The tables of the page are given with
\* their cell texts already read and normalized.
ExtractContent(sc, page) ==
    [codeBlocks |-> ExtractCodeBlocks(sc, page.candidates), tables |-> page.tables]

-----------------------------------------------------------------------------
(* buildMarkdownForStory *)

Line(k, level, text, n, cells) ==
    [k |-> k, level |-> level, text |-> text, n |-> n, cells |-> cells]

\* story.title || ''
TitleOrEmpty(story) == Or(story.title, Str(<<>>)).s

\* const titleParts
TitleParts(story) == FilterBoolean(Split(TitleOrEmpty(story)))

\* titleParts[i] !== lastTitleParts[i], i 1-based here
PartChanged(titleParts, last, i) ==
    i > Len(last) \/ titleParts[i] # last[i]

RECURSIVE PathHeadings(_, _, _)
\* the loop over titleParts, from index i on
PathHeadings(titleParts, last, i) ==
    IF i > Len(titleParts) THEN <<>>
    ELSE (IF PartChanged(titleParts, last, i)
          THEN <<Line("path", i, titleParts[i], 0, <<>>)>>
          ELSE <<>>)
         \o PathHeadings(titleParts, last, i + 1)

\* const storyName
StoryName(story) == Or(story.name, story.id).s

ColumnLabel(i) == "Column " \o ToString(i)

\* const headers
EffectiveHeaders(table) ==
    IF Len(table.headers) > 0 THEN table.headers
    ELSE IF Len(table.rows) > 0
         THEN [i \in 1..Len(table.rows[1]) |-> ColumnLabel(i)]
         ELSE <<>>

RECURSIVE PaddedRowOffByOne(_, _)
\* the loop with the test paddedRow.length <= headers.length
PaddedRowOffByOne(row, width) ==
    IF Len(row) <= width THEN PaddedRowOffByOne(Append(row, ""), width) ELSE row

RECURSIVE PaddedRow(_, _)
\* while (paddedRow.length < headers.length) paddedRow.push('')
PaddedRow(row, width) ==
    IF Len(row) < width THEN PaddedRow(Append(row, ""), width) ELSE row

CodeSection(block, idx, level) ==
    << Line("codeh", level, <<>>, idx, <<>>),
       Line("fence", 0, <<>>, 0, <<block.language>>),
       Line("code", 0, block.code, 0, <<>>),
       Line("fenceend", 0, <<>>, 0, <<>>) >>

TableSection(table, idx, level) ==
    LET headers == EffectiveHeaders(table) IN
    <<Line("tableh", level, <<>>, idx, <<>>)>>
    \o (IF Len(headers) = 0 THEN <<>>
        ELSE << Line("hdr", 0, <<>>, 0, headers),
                Line("sep", 0, <<>>, 0, [i \in 1..Len(headers) |-> "---"]) >>
             \o [r \in 1..Len(table.rows) |->
                    Line("row", 0, <<>>, 0, PaddedRow(table.rows[r], Len(headers)))])

RECURSIVE Flatten(_)
Flatten(ss) == IF ss = <<>> THEN <<>> ELSE Head(ss) \o Flatten(Tail(ss))

buildMarkdownForStory(story, cont, last) ==
    LET titleParts == TitleParts(story)
        storyHeadingLevel == Len(titleParts) + 1
    IN  PathHeadings(titleParts, last, 1)
        \o <<Line("leaf", storyHeadingLevel, StoryName(story), 0, <<>>)>>
        \o Flatten([i \in 1..Len(cont.codeBlocks) |->
                      CodeSection(cont.codeBlocks[i], i, storyHeadingLevel + 1)])
        \o Flatten([i \in 1..Len(cont.tables) |->
                      TableSection(cont.tables[i], i, storyHeadingLevel + 1)])

-----------------------------------------------------------------------------
(* Inputs *)

Scripts == {"scrape-storybook.js", "unnamed/part_000"}

\* process.argv[2]: absent, empty, "/" and "u/"
Argvs == {Undefined, Str(<<>>), Str(<<"/">>), Str(<<"u", "/">>)}

TitleChars == {"A", "B", "/"}

\* The titles of the driver run's manifest: absent, "", "A", "A/A", "A/B",
\* "/A", "A/" and "A//B".
Titles ==
    { Undefined, Str(<<>>), Str(<<"A">>), Str(<<"A", "/", "A">>),
      Str(<<"A", "/", "B">>), Str(<<"/", "A">>), Str(<<"A", "/">>),
      Str(<<"A", "/", "/", "B">>) }
Names == {Undefined, Str(<<"N">>)}
Id(i) == Str(<<"s", ToString(i)>>)

\* The values of storiesJson.stories: ids are unique, title and name optional.
Manifests ==
    UNION {{[i \in 1..n |-> [id |-> Id(i), title |-> f[i][1], name |-> f[i][2]]] :
              f \in [1..n -> Titles \X Names]} : n \in 0..MaxStories}

Element(text, lang) == [text |-> text, lang |-> lang]
Page(candidates, tables) == [candidates |-> candidates, tables |-> tables]
EmptyPage == Page(<<>>, <<>>)
\* content before the first page.evaluate
NoContent == [codeBlocks |-> <<>>, tables |-> <<>>]

\* The table of h header cells whose r-th row has widths[r] cells.
HeaderCell(j) == "H" \o ToString(j)
Cell(r, c) == "r" \o ToString(r) \o "c" \o ToString(c)
Table(h, widths) ==
    [headers |-> [j \in 1..h |-> HeaderCell(j)],
     rows |-> [r \in 1..Len(widths) |-> [c \in 1..widths[r] |-> Cell(r, c)]]]

\* The pages the driver run visits: no content; one code block; the same
\* code twice (the second with a trailing blank) and a props table.
DriverPages ==
    { EmptyPage,
      Page(<<Element(<<"a">>, "tsx")>>, <<>>),
      Page(<<Element(<<"a">>, "tsx"), Element(<<"a", " ">>, "")>>, <<Table(2, <<1>>)>>) }

-----------------------------------------------------------------------------
(* main *)

Preamble(b) ==
    << Line("h", 1, <<"Storybook export">>, 0, <<>>),
       Line("from", 0, b, 0, <<>>) >>

Message(msg, id) == [msg |-> msg, id |-> id]

\* process.exit(1) after console.error(msg)
Exit(msg) ==
    /\ stderr' = Append(stderr, Message(msg, <<>>))
    /\ exitStatus' = 1
    /\ pc' = "exit"

Init ==
    /\ script \in Scripts
    /\ argv \in Argvs
    /\ baseUrl = <<>>
    /\ storiesRes = [ok |-> FALSE]
    /\ stories = <<>>
    /\ browser = "none"
    /\ markdown = <<>>
    /\ lastTitleParts = <<>>
    /\ index = 0
    /\ content = NoContent
    /\ outFile = <<>>
    /\ writes = 0
    /\ exitStatus = -1
    /\ stderr = <<>>
    /\ emitted = <<>>
    /\ pc = "start"
    /\ fnPc = "off"
    /\ fnStory = [id |-> Id(1), title |-> Undefined, name |-> Undefined]
    /\ fnPage = EmptyPage
    /\ fnContent = NoContent
    /\ fnLast = <<>>
    /\ fnOut = <<>>

\* const baseUrl = ...; if (!baseUrl) exit
ReadArgs ==
    /\ pc = "start"
    /\ baseUrl' = StripTrailingSlash(Or(argv, Str(<<>>)).s)
    /\ IF baseUrl' = <<>>
       THEN Exit("Usage")
       ELSE pc' = "fetch" /\ UNCHANGED <<stderr, exitStatus>>
    /\ UNCHANGED <<script, argv, storiesRes, stories, browser, markdown,
                   lastTitleParts, index, content, outFile, writes, emitted>>
    /\ UNCHANGED fnVars

\* const storiesRes = await fetch(storiesUrl), when fetch resolves
Fetch ==
    /\ pc = "fetch"
    /\ \E ok \in BOOLEAN : storiesRes' = [ok |-> ok]
    /\ pc' = "response"
    /\ UNCHANGED <<script, argv, baseUrl, stories, browser, markdown,
                   lastTitleParts, index, content, outFile, writes,
                   exitStatus, stderr, emitted>>
    /\ UNCHANGED fnVars

\* if (!storiesRes.ok) exit
CheckResponse ==
    /\ pc = "response"
    /\ IF ~storiesRes.ok
       THEN Exit("Failed to fetch stories.json")
       ELSE pc' = "json" /\ UNCHANGED <<stderr, exitStatus>>
    /\ UNCHANGED <<script, argv, baseUrl, storiesRes, stories, browser, markdown,
                   lastTitleParts, index, content, outFile, writes, emitted>>
    /\ UNCHANGED fnVars

\* ReadStories without the test stories.length === 0
ReadStoriesNoEmptyCheck ==
    /\ pc = "json"
    /\ \E m \in Manifests : stories' = m
    /\ pc' = "launch"
    /\ UNCHANGED <<script, argv, baseUrl, storiesRes, browser, markdown,
                   lastTitleParts, index, content, outFile, writes,
                   exitStatus, stderr, emitted>>
    /\ UNCHANGED fnVars

\* const stories = Object.values(...); if (stories.length === 0) exit
ReadStories ==
    /\ pc = "json"
    /\ \E m \in Manifests : stories' = m
    /\ IF Len(stories') = 0
       THEN Exit("No stories found")
       ELSE pc' = "launch" /\ UNCHANGED <<stderr, exitStatus>>
    /\ UNCHANGED <<script, argv, baseUrl, storiesRes, browser, markdown,
                   lastTitleParts, index, content, outFile, writes, emitted>>
    /\ UNCHANGED fnVars

\* chromium.launch, newPage, and the initial values of the loop's variables
Launch ==
    /\ pc = "launch"
    /\ browser' = "open"
    /\ markdown' = Preamble(baseUrl)
    /\ lastTitleParts' = <<>>
    /\ index' = 0
    /\ pc' = "loop"
    /\ UNCHANGED <<script, argv, baseUrl, storiesRes, stories, content, outFile,
                   writes, exitStatus, stderr, emitted>>
    /\ UNCHANGED fnVars

\* the loop test holds and page.goto resolves
GotoOk ==
    /\ pc = "loop"
    /\ index < Len(stories)
    /\ pc' = "evaluate"
    /\ UNCHANGED <<script, argv, baseUrl, storiesRes, stories, browser, markdown,
                   lastTitleParts, index, content, outFile, writes,
                   exitStatus, stderr, emitted>>
    /\ UNCHANGED fnVars

\* the loop test holds and page.goto rejects: catch, console.error, continue
GotoFail ==
    /\ pc = "loop"
    /\ index < Len(stories)
    /\ stderr' = Append(stderr, Message("Error loading docs", stories[index + 1].id.s))
    /\ index' = index + 1
    /\ pc' = "loop"
    /\ UNCHANGED <<script, argv, baseUrl, storiesRes, stories, browser, markdown,
                   lastTitleParts, content, outFile, writes, exitStatus, emitted>>
    /\ UNCHANGED fnVars

\* const content = await page.evaluate(...)
Evaluate ==
    /\ pc = "evaluate"
    /\ \E page \in DriverPages : content' = ExtractContent(script, page)
    /\ pc' = "build"
    /\ UNCHANGED <<script, argv, baseUrl, storiesRes, stories, browser, markdown,
                   lastTitleParts, index, outFile, writes, exitStatus, stderr,
                   emitted>>
    /\ UNCHANGED fnVars

\* BuildSection with the new section put in front of the text
BuildSectionPrepend ==
    /\ pc = "build"
    /\ LET story == stories[index + 1]
           md == buildMarkdownForStory(story, content, lastTitleParts)
       IN  /\ markdown' = md \o markdown
           /\ emitted' = Append(emitted, [story |-> index + 1, md |-> md,
                                          last |-> lastTitleParts])
           /\ IF story.title.def
              THEN /\ lastTitleParts' = Split(story.title.s)
                   /\ index' = index + 1
                   /\ pc' = "loop"
                   /\ UNCHANGED <<stderr, exitStatus>>
              ELSE /\ Exit("TypeError")
                   /\ UNCHANGED <<lastTitleParts, index>>
    /\ UNCHANGED <<script, argv, baseUrl, storiesRes, stories, browser, content,
                   outFile, writes>>
    /\ UNCHANGED fnVars

\* markdown += buildMarkdownForStory(...); lastTitleParts = story.title.split('/')
\* and the loop's index++.  story.title.split throws a TypeError when the
\* title is undefined; main().catch prints it and exits with status 1.
BuildSection ==
    /\ pc = "build"
    /\ LET story == stories[index + 1]
           md == buildMarkdownForStory(story, content, lastTitleParts)
       IN  /\ markdown' = markdown \o md
           /\ emitted' = Append(emitted, [story |-> index + 1, md |-> md,
                                          last |-> lastTitleParts])
           /\ IF story.title.def
              THEN /\ lastTitleParts' = Split(story.title.s)
                   /\ index' = index + 1
                   /\ pc' = "loop"
                   /\ UNCHANGED <<stderr, exitStatus>>
              ELSE /\ Exit("TypeError")
                   /\ UNCHANGED <<lastTitleParts, index>>
    /\ UNCHANGED <<script, argv, baseUrl, storiesRes, stories, browser, content,
                   outFile, writes>>
    /\ UNCHANGED fnVars

\* the loop test fails; await browser.close()
CloseBrowser ==
    /\ pc = "loop"
    /\ ~(index < Len(stories))
    /\ browser' = "closed"
    /\ pc' = "write"
    /\ UNCHANGED <<script, argv, baseUrl, storiesRes, stories, markdown,
                   lastTitleParts, index, content, outFile, writes,
                   exitStatus, stderr, emitted>>
    /\ UNCHANGED fnVars

\* await fs.writeFile(outFile, markdown); main returns and node exits with 0
WriteFile ==
    /\ pc = "write"
    /\ outFile' = markdown
    /\ writes' = writes + 1
    /\ stderr' = Append(stderr, Message("Markdown written", <<>>))
    /\ exitStatus' = 0
    /\ pc' = "done"
    /\ UNCHANGED <<script, argv, baseUrl, storiesRes, stories, browser, markdown,
                   lastTitleParts, index, content, emitted>>
    /\ UNCHANGED fnVars

\* An awaited call outside a try block rejects (fetch, json, launch, newPage,
\* waitForTimeout, the content's page.evaluate, writeFile): main().catch
Reject ==
    /\ pc \in {"fetch", "json", "launch", "evaluate", "write"}
    /\ Exit("Uncaught")
    /\ UNCHANGED <<script, argv, baseUrl, storiesRes, stories, browser, markdown,
                   lastTitleParts, index, content, outFile, writes, emitted>>
    /\ UNCHANGED fnVars

Next ==
    \/ ReadArgs
    \/ Fetch
    \/ CheckResponse
    \/ ReadStories
    \/ Launch
    \/ GotoOk
    \/ GotoFail
    \/ Evaluate
    \/ BuildSection
    \/ CloseBrowser
    \/ WriteFile
    \/ Reject

Spec == Init /\ [][Next]_vars

-----------------------------------------------------------------------------
(* buildMarkdownForStory and the extraction run on their own *)

Off ==
    /\ argv = Undefined
    /\ baseUrl = <<>>
    /\ storiesRes = [ok |-> FALSE]
    /\ stories = <<>>
    /\ browser = "none"
    /\ markdown = <<>>
    /\ lastTitleParts = <<>>
    /\ index = 0
    /\ content = NoContent
    /\ outFile = <<>>
    /\ writes = 0
    /\ exitStatus = -1
    /\ stderr = <<>>
    /\ emitted = <<>>
    /\ pc = "off"

\* const content = await page.evaluate(...)
FnExtract ==
    /\ fnPc = "extract"
    /\ fnContent' = ExtractContent(script, fnPage)
    /\ fnPc' = "build"
    /\ UNCHANGED <<fnStory, fnPage, fnLast, fnOut>>
    /\ UNCHANGED driverVars

\* buildMarkdownForStory(story, content, lastTitleParts)
FnBuild ==
    /\ fnPc = "build"
    /\ fnOut' = buildMarkdownForStory(fnStory, fnContent, fnLast)
    /\ fnPc' = "out"
    /\ UNCHANGED <<fnStory, fnPage, fnContent, fnLast>>
    /\ UNCHANGED driverVars

NextFn ==
    \/ FnExtract
    \/ FnBuild

Story(title, name) == [id |-> Id(1), title |-> title, name |-> name]

\* Every title of at most MaxTitleLen characters
AllTitles == SeqsUpTo(TitleChars, MaxTitleLen)
\* The paths of these titles
StoryPaths == {FilterBoolean(Split(t)) : t \in AllTitles}

\* Heading emission: any title against any previous path
InitHeading ==
    /\ Off
    /\ script \in Scripts
    /\ fnPc = "extract"
    /\ fnStory \in {Story(Str(t), Undefined) : t \in AllTitles}
    /\ fnPage = EmptyPage
    /\ fnContent = NoContent
    /\ fnLast \in StoryPaths
    /\ fnOut = <<>>

SpecHeading == InitHeading /\ [][NextFn]_vars

CodeChars == {"a", "b", " ", "\n"}
Langs == {"", "tsx"}
Elements ==
    {Element(t, l) : t \in SeqsUpTo(CodeChars, MaxCodeLen), l \in Langs}

\* Code blocks: any list of at most MaxCandidates code elements
InitCode ==
    /\ Off
    /\ script \in Scripts
    /\ fnPc = "extract"
    /\ fnStory = Story(Str(<<"A">>), Str(<<"N">>))
    /\ fnPage \in {Page(c, <<>>) : c \in SeqsUpTo(Elements, MaxCandidates)}
    /\ fnContent = NoContent
    /\ fnLast = <<>>
    /\ fnOut = <<>>

SpecCode == InitCode /\ [][NextFn]_vars

Tables ==
    {Table(h, w) : h \in 0..MaxHeaders, w \in SeqsUpTo(0..MaxCols, MaxRows)}

\* Tables: any list of at most MaxTables tables, after zero or one code block
InitTable ==
    /\ Off
    /\ script \in Scripts
    /\ fnPc = "extract"
    /\ fnStory = Story(Str(<<"A">>), Str(<<"N">>))
    /\ fnPage \in {Page(c, t) : c \in {<<>>, <<Element(<<"a">>, "tsx")>>},
                                t \in SeqsUpTo(Tables, MaxTables)}
    /\ fnContent = NoContent
    /\ fnLast = <<>>
    /\ fnOut = <<>>

SpecTable == InitTable /\ [][NextFn]_vars

-----------------------------------------------------------------------------
(* Reading a Markdown text *)

Lines(md, kinds) == SelectSeq(md, LAMBDA l : l.k \in kinds)
Count(md, kinds) == Len(Lines(md, kinds))

\* the position of the first line of kind k and number n, 0 when none
RECURSIVE FindLine(_, _, _, _)
FindLine(md, k, n, from) ==
    IF from > Len(md) THEN 0
    ELSE IF md[from].k = k /\ md[from].n = n THEN from
    ELSE FindLine(md, k, n, from + 1)

\* the length of the longest common prefix of two paths
RECURSIVE CommonPrefixLen(_, _)
CommonPrefixLen(a, b) ==
    IF a = <<>> \/ b = <<>> \/ Head(a) # Head(b) THEN 0
    ELSE 1 + CommonPrefixLen(Tail(a), Tail(b))

\* a StoryPath: the title split on "/" with the empty segments discarded
StoryPath(story) == FilterBoolean(Split(TitleOrEmpty(story)))

-----------------------------------------------------------------------------
(* C1 *)

\* C1 (heading minimality): when previousPath and currentPath share a longest
\* common prefix of length k, buildMarkdownForStory returns one path heading
\* of level i and text currentPath[i] for every i in k+1..Len(currentPath)
\* (1-based), in this order and no other, followed by exactly one leaf heading.
C1_HeadingMinimality ==
    fnPc = "out" =>
        LET cur == StoryPath(fnStory)
            k == CommonPrefixLen(cur, fnLast)
        IN  /\ Lines(fnOut, {"path"}) =
                 [j \in 1..(Len(cur) - k) |-> Line("path", k + j, cur[k + j], 0, <<>>)]
            /\ Count(fnOut, {"leaf"}) = 1
            /\ fnOut[Len(cur) - k + 1].k = "leaf"

-----------------------------------------------------------------------------
(* C3 *)

\* C3 (empty table skip): a table whose effective header list is empty (no
\* headers, and no rows or an empty first row) contributes no line at all:
\* the text holds no "Props table i" heading for it, and as many header rows
\* and separator rows as there are tables with a non-empty header list.
C3_EmptyTableSkip ==
    fnPc = "out" =>
        LET tables == fnContent.tables
            kept == {i \in 1..Len(tables) : Len(EffectiveHeaders(tables[i])) > 0}
        IN  /\ \A i \in 1..Len(tables) :
                  i \notin kept => FindLine(fnOut, "tableh", i, 1) = 0
            /\ Count(fnOut, {"tableh"}) = Cardinality(kept)
            /\ Count(fnOut, {"hdr"}) = Cardinality(kept)
            /\ Count(fnOut, {"sep"}) = Cardinality(kept)

-----------------------------------------------------------------------------
(* C6 *)

Max(a, b) == IF a >= b THEN a ELSE b

\* C6 (table padding): for every table with h >= 1 header columns, given or
\* synthesized as "Column 1".."Column w" from the width w of the first row,
\* the heading "Props table i" is followed by the header row, a separator
\* row of exactly h cells "---", and one data row per input row in input
\* order; a data row has Max(h, width) cells: the input cells unchanged,
\* then empty strings.  No further data row follows.
C6_TablePadding ==
    fnPc = "out" =>
        \A i \in 1..Len(fnContent.tables) :
            LET table == fnContent.tables[i]
                given == Len(table.headers)
                w == IF Len(table.rows) > 0 THEN Len(table.rows[1]) ELSE 0
                h == IF given > 0 THEN given ELSE w
                p == FindLine(fnOut, "tableh", i, 1)
                after == p + 2 + Len(table.rows) + 1
            IN  h >= 1 =>
                  /\ p > 0
                  /\ fnOut[p + 1].k = "hdr"
                  /\ fnOut[p + 1].cells =
                        IF given > 0 THEN table.headers
                        ELSE [j \in 1..w |-> "Column " \o ToString(j)]
                  /\ fnOut[p + 2].k = "sep"
                  /\ fnOut[p + 2].cells = [j \in 1..h |-> "---"]
                  /\ \A r \in 1..Len(table.rows) :
                        LET row == table.rows[r]
                            cells == fnOut[p + 2 + r].cells
                        IN  /\ fnOut[p + 2 + r].k = "row"
                            /\ Len(cells) = Max(h, Len(row))
                            /\ \A c \in 1..Len(row) : cells[c] = row[c]
                            /\ \A c \in (Len(row) + 1)..Len(cells) : cells[c] = ""
                  /\ after <= Len(fnOut) => fnOut[after].k # "row"

\* A table of one header whose first row is empty and is padded to one empty
\* cell, and whose second row of two cells is kept as it is.
C6_Witness ==
    /\ fnPc = "out"
    /\ Len(fnContent.tables) >= 1
    /\ fnContent.tables[1] = Table(1, <<0, 2>>)
    /\ \E p \in 1..Len(fnOut) :
          /\ fnOut[p].k = "row" /\ fnOut[p].cells = <<"">>
          /\ p < Len(fnOut)
          /\ fnOut[p + 1].k = "row" /\ fnOut[p + 1].cells = <<"r2c1", "r2c2">>

-----------------------------------------------------------------------------
(* C4 *)

\* the code text a script reads from an element
NormalizedText(sc, el) ==
    IF sc = "scrape-storybook.js" THEN normalize(el.text) ELSE normalizeCode(el.text)

\* the positions of a page's candidates that hold a non-empty normalized text
\* no earlier candidate holds
FirstOccurrences(sc, candidates) ==
    {i \in 1..Len(candidates) :
        /\ NormalizedText(sc, candidates[i]) # <<>>
        /\ \A j \in 1..(i - 1) :
              NormalizedText(sc, candidates[j]) # NormalizedText(sc, candidates[i])}

\* the i-th smallest element of a finite set of numbers
RECURSIVE Nth(_, _)
Nth(S, i) ==
    LET m == CHOOSE x \in S : \A y \in S : x <= y IN
    IF i = 1 THEN m ELSE Nth(S \ {m}, i - 1)

\* C4 (dedup invariant, within one story): the "Code example" sections of a
\* story hold pairwise distinct code texts, one per distinct normalized text
\* of the page and that of its first occurrence (text and language), in the
\* order of appearance, numbered 1..n without gaps.  Stated for the pages
\* none of whose code elements is empty after normalization.
C4_Dedup ==
    (/\ fnPc = "out"
     /\ \A i \in 1..Len(fnPage.candidates) :
           NormalizedText(script, fnPage.candidates[i]) # <<>>) =>
        LET first == FirstOccurrences(script, fnPage.candidates)
            n == Cardinality(first)
            heads == Lines(fnOut, {"codeh"})
            fences == Lines(fnOut, {"fence"})
            codes == Lines(fnOut, {"code"})
        IN  /\ Len(heads) = n /\ Len(codes) = n /\ Len(fences) = n
            /\ \A i \in 1..n :
                  LET el == fnPage.candidates[Nth(first, i)] IN
                  /\ heads[i].n = i
                  /\ codes[i].text = NormalizedText(script, el)
                  /\ fences[i].cells = <<el.lang>>
            /\ \A i, j \in 1..n : i # j => codes[i].text # codes[j].text

\* The same statement for the copy of the script in unnamed/part_000 alone,
\* there for every page: an element that is empty after normalization gives
\* no section.
C4_DedupSecondCopy ==
    (fnPc = "out" /\ script = "unnamed/part_000") =>
        LET first == FirstOccurrences(script, fnPage.candidates)
            n == Cardinality(first)
            heads == Lines(fnOut, {"codeh"})
            codes == Lines(fnOut, {"code"})
        IN  /\ Len(heads) = n /\ Len(codes) = n
            /\ \A i \in 1..n :
                  /\ heads[i].n = i
                  /\ codes[i].text =
                        NormalizedText(script, fnPage.candidates[Nth(first, i)])
            /\ \A i, j \in 1..n : i # j => codes[i].text # codes[j].text

-----------------------------------------------------------------------------
(* C2 *)

\* C2 (a failed page load keeps the heading): once the run has written the
\* document, the document holds exactly one leaf heading per story of the
\* manifest, whether page.goto failed for the story or not.
C2_FailedStoryKeepsHeading ==
    pc = "done" => Count(outFile, {"leaf"}) = Len(stories)

-----------------------------------------------------------------------------
(* C5 *)

\* C5 (a story without title is harmless): the loop iteration that builds
\* the section of a story whose title is absent appends a leaf heading of
\* level 1 with the story's name, or its id when the name is absent, and
\* goes on to the next story instead of ending the run.
C5_MissingTitleHarmless ==
    [][(pc = "build" /\ ~stories[index + 1].title.def) =>
          /\ pc' = "loop"
          /\ index' = index + 1
          /\ Len(markdown') > Len(markdown)
          /\ markdown'[Len(markdown) + 1] =
                Line("leaf", 1, StoryName(stories[index + 1]), 0, <<>>)]_vars

-----------------------------------------------------------------------------
(* C7 *)

\* the run ended with a non-zero status, with no browser, no story
\* processed and no document
EndedWithoutDocument ==
    /\ pc = "exit"
    /\ exitStatus = 1
    /\ browser = "none"
    /\ emitted = <<>>
    /\ index = 0
    /\ writes = 0
    /\ outFile = <<>>

\* C7 (fatal conditions end the run without a document): once past the
\* respective check, a missing source argument, a failed fetch of the
\* manifest and a manifest without stories each leave the run ended with
\* status 1 before the browser is launched and before any story is
\* processed, with no file written.  A run that ends with a non-zero status
\* writes no file; the file is written at most once, after the loop has
\* gone through every story, and holds the accumulated text.
C7_FatalNoDocument ==
    /\ (pc # "start" /\ ~Truthy(argv)) => EndedWithoutDocument
    /\ (pc \notin {"start", "fetch", "response"} /\ ~storiesRes.ok)
          => EndedWithoutDocument
    /\ (pc \notin {"start", "fetch", "response", "json"} /\ stories = <<>>)
          => EndedWithoutDocument
    /\ exitStatus > 0 => writes = 0 /\ outFile = <<>>
    /\ writes <= 1
    /\ writes = 1 =>
          /\ pc = "done"
          /\ Len(stories) >= 1
          /\ index = Len(stories)
          /\ outFile = markdown
          /\ exitStatus = 0
    /\ writes = 0 => outFile = <<>>

\* The manifest was fetched and holds no story: the run has ended.
C7_Witness ==
    /\ pc = "exit"
    /\ storiesRes.ok
    /\ stories = <<>>
    /\ stderr[Len(stderr)].msg = "No stories found"

-----------------------------------------------------------------------------
(* C8 *)

\* C8 (the cursor is updated once per story): whenever the loop is between
\* two iterations and story i was the last one it went through, the cursor
\* is the path of story i (as split from the title, with or without its
\* empty segments), also when page.goto failed for story i.
C8_CursorFollowsEveryStory ==
    (pc = "loop" /\ index >= 1) =>
        LET story == stories[index] IN
        \/ lastTitleParts = StoryPath(story)
        \/ lastTitleParts = Split(TitleOrEmpty(story))

-----------------------------------------------------------------------------
(* C9 *)

\* C9 (the cursor is the StoryPath): the cursor is empty before the first
\* story; after a story was processed it is that story's StoryPath; and of
\* two consecutive processed stories with the same title the second gets no
\* path heading.
C9_CursorIsStoryPath ==
    /\ (pc = "loop" /\ index = 0) => lastTitleParts = <<>>
    /\ (/\ pc = "loop" /\ index >= 1
        /\ emitted # <<>> /\ emitted[Len(emitted)].story = index)
          => lastTitleParts = StoryPath(stories[index])
    /\ \A j \in 2..Len(emitted) :
          (/\ emitted[j].story = emitted[j - 1].story + 1
           /\ stories[emitted[j].story].title.def
           /\ stories[emitted[j].story].title = stories[emitted[j - 1].story].title)
             => Count(emitted[j].md, {"path"}) = 0

-----------------------------------------------------------------------------
(* C10 *)

IsPrefix(a, b) == Len(a) <= Len(b) /\ SubSeq(b, 1, Len(a)) = a

\* the place of a line's kind in a story's section
Rank(k) ==
    CASE k = "path" -> 1
      [] k = "leaf" -> 2
      [] k \in {"codeh", "fence", "code", "fenceend"} -> 3
      [] k \in {"tableh", "hdr", "sep", "row"} -> 4
      [] OTHER -> 0

\* path headings, one leaf heading, the code examples of cont in input
\* order, then the tables of cont in input order
SectionInOrder(md, cont) ==
    /\ \A i \in 1..Len(md) : Rank(md[i].k) >= 1
    /\ \A i \in 1..(Len(md) - 1) : Rank(md[i].k) <= Rank(md[i + 1].k)
    /\ Count(md, {"leaf"}) = 1
    /\ Lines(md, {"code"}) =
          [i \in 1..Len(cont.codeBlocks) |->
              Line("code", 0, cont.codeBlocks[i].code, 0, <<>>)]
    /\ Len(Lines(md, {"codeh"})) = Len(cont.codeBlocks)
    /\ \A i \in 1..Len(cont.codeBlocks) : Lines(md, {"codeh"})[i].n = i
    /\ Len(Lines(md, {"tableh"})) = Len(cont.tables)
    /\ \A i \in 1..Len(cont.tables) : Lines(md, {"tableh"})[i].n = i

\* The text is the preamble followed by the sections built so far, one per
\* story at most, in the order of the manifest, each headed by the name (or
\* id) of its story.
DocumentInManifestOrder ==
    /\ browser = "none" => markdown = <<>>
    /\ browser # "none" =>
          markdown =
             << Line("h", 1, <<"Storybook export">>, 0, <<>>),
                Line("from", 0, baseUrl, 0, <<>>) >>
             \o Flatten([j \in 1..Len(emitted) |-> emitted[j].md])
    /\ \A j \in 1..Len(emitted) :
          /\ emitted[j].story \in 1..Len(stories)
          /\ Lines(emitted[j].md, {"leaf"}) =
                <<Line("leaf", Len(StoryPath(stories[emitted[j].story])) + 1,
                       StoryName(stories[emitted[j].story]), 0, <<>>)>>
    /\ \A j \in 1..(Len(emitted) - 1) : emitted[j].story < emitted[j + 1].story

=============================================================================
